---- MODULE Spec2Model ----
(***************************************************************************)
(* Model of src/src/components/MapBoard.tsx: the MapBoard React component. *)
(*                                                                         *)
(* State: the two useState cells (base, visible), the two refs that are    *)
(* written (mapRef, popupRef) and every maplibre Map the effect has        *)
(* created, each with the position of its async "load" handler.            *)
(*                                                                         *)
(* JavaScript is run-to-completion, and a click is a discrete event, so    *)
(* the click handler, the re-render it causes, the cleanup of the previous *)
(* effect and the new effect run are one step.  The async load handler     *)
(* gives up control at each of its three awaits, so each resumption is a   *)
(* step of its own.                                                        *)
(***************************************************************************)
EXTENDS Integers, Sequences, FiniteSets, TLC

\* Bound on the number of Map instances created over a run.
MaxSurfaces == 3
\* The same bound for the runs checked under fairness.
MaxLiveSurfaces == 2

----------------------------------------------------------------------------
\* Static tables

STYLES == [terrain |-> "/styles/opentopo.json", dark |-> "/styles/carto-dark.json"]

StyleKey == DOMAIN STYLES

LayerKey == {"departments", "communes", "sections"}

\* Object.keys order of the visible object (insertion order, kept by spread)
VisibleKeys == <<"departments", "communes", "sections">>

InitialVisible == [departments |-> TRUE, communes |-> FALSE, sections |-> TRUE]

\* the three awaited fetches, in program order
FetchOrder == <<"departments", "communes", "sections">>

\* the three addSource calls, in program order
SourceOrder == <<"departments", "communes", "sections">>

\* the five addLayer calls, in program order
LayerOrder ==
  << [id |-> "departments-fill",    source |-> "departments"],
     [id |-> "departments-outline", source |-> "departments"],
     [id |-> "communes-outline",    source |-> "communes"],
     [id |-> "sections-fill",       source |-> "sections"],
     [id |-> "sections-outline",    source |-> "sections"] >>

hoverTargets == <<"sections-fill", "departments-fill">>

\* a Popup: made by `new maplibregl.Popup`, shown on Map `map` (0: on none)
\* with the content html
NoPopup == [made |-> FALSE, map |-> 0, html |-> ""]

\* what lies under the pointer: a feature of the sections data, a feature of
\* the departments data, and whether the features carry properties.name
Points == [sections : BOOLEAN, departments : BOOLEAN, named : BOOLEAN]

----------------------------------------------------------------------------
VARIABLES
  base,       \* useState<StyleKey>
  visible,    \* useState({departments, communes, sections})
  mapRef,     \* mapRef.current: index into surfaces
  popupRef,   \* popupRef.current: 0 = null, else the Map whose load handler created the Popup
  surfaces,   \* every Map created so far, in creation order
  popups,     \* popups[i]: the Popup made by the load handler of surfaces[i]
  hist        \* history: the last two toggles, [key, before]

vars == <<base, visible, mapRef, popupRef, surfaces, popups, hist>>

----------------------------------------------------------------------------
\* Sequence helpers

Range(s) == {s[i] : i \in DOMAIN s}

Reverse(s) == [i \in DOMAIN s |-> s[Len(s) + 1 - i]]

IsPrefix(s, t) == Len(s) <= Len(t) /\ \A i \in DOMAIN s : s[i] = t[i]

----------------------------------------------------------------------------
\* The engine capability, as used by the component.  m is one Map record.

\* the Map record but for its style and the closure's `visible`
BlankMap(style, v) ==
  [ style     |-> style,
    status    |-> "Creating",
    hpc       |-> "idle",       \* load handler: idle, awaiting a fetch, or ended
    cvis      |-> v,            \* `visible` captured by the handler's closure
    failed    |-> "none",       \* the fetch whose promise rejected
    stale     |-> FALSE,        \* the tail of the handler ran after map.remove()
    sources   |-> {},
    layers    |-> << >>,
    vis       |-> << >>,        \* layout visibility, one entry per layers index
    listeners |-> {},
    cursor    |-> "",
    err       |-> FALSE ]       \* the Map reported a call naming a layer it does not hold

\* mutant: the style is a constant, not STYLES[base]
NewMap_FixedStyle(b, v) == BlankMap(STYLES["terrain"], v)

\* mutant: the handler reads the initial `visible`, not that of its render
NewMap_InitialVisible(b, v) ==
  BlankMap(STYLES[b], [departments |-> TRUE, communes |-> FALSE, sections |-> TRUE])

\* new maplibregl.Map({style: STYLES[base], ...}) in the closure of a render
\* whose state is (b, v)
NewMap(b, v) == BlankMap(STYLES[b], v)

addSource(m, id) == [m EXCEPT !.sources = @ \cup {id}]

\* a layer is laid out visible until told otherwise
addLayer(m, d) == [m EXCEPT !.layers = Append(@, d), !.vis = Append(@, TRUE)]

getLayer(m, id) == \E i \in DOMAIN m.layers : m.layers[i].id = id

\* a call naming a layer the Map does not hold changes nothing and is
\* reported as an error
\* (x \in {m} has the Map the call is made on worked out once)
setLayoutProperty(m, id, on) ==
  LET set(x) ==
        IF getLayer(x, id)
        THEN [x EXCEPT !.vis = [i \in DOMAIN @ |-> IF x.layers[i].id = id THEN on ELSE @[i]]]
        ELSE [x EXCEPT !.err = TRUE]
  IN  CHOOSE r \in {set(x) : x \in {m}} : TRUE

\* map.on(ev, handler)
mapOn(m, ev) == [m EXCEPT !.listeners = @ \cup {ev}]

\* map.remove(): the style (sources, layers) is dropped and the handlers are
\* detached; the handler's own position is untouched
remove(m) ==
  [m EXCEPT !.status = "Destroyed", !.sources = {}, !.layers = << >>,
            !.vis = << >>, !.listeners = {}, !.cursor = ""]

LayerVisible(m, id) == \E i \in DOMAIN m.layers : m.layers[i].id = id /\ m.vis[i]

RegisteredIds(m) == {m.layers[i].id : i \in DOMAIN m.layers}

VisibleIds(m) == {id \in RegisteredIds(m) : LayerVisible(m, id)}

\* queryRenderedFeatures(point, {layers}): the rendered features under the
\* point among the named layers, topmost (last added) first
queryRenderedFeatures(m, pt, layers) ==
  LET Keep(i) == /\ m.layers[i].id \in Range(layers)
                 /\ m.vis[i]
                 /\ m.layers[i].source \in {"sections", "departments"}
                 /\ pt[m.layers[i].source]
      top == SelectSeq(Reverse([i \in DOMAIN m.layers |-> i]), Keep)
  IN  [j \in DOMAIN top |-> m.layers[top[j]]]

\* mutant: the bottom feature is taken
pickFeature_Last(features) == features[Len(features)]

\* const f = features[0]
pickFeature(features) == features[1]

\* popup.remove(): html is what the Popup shows, so nothing once it is off the Map
popupRemove(p) == [p EXCEPT !.map = 0, !.html = ""]

\* popup.setLngLat(..).setHTML(html).addTo(map i)
popupAddTo(p, html, i) == [p EXCEPT !.map = i, !.html = html]

\* the Popups shown on Map i go with it when it is removed
DropPopups(ps, i) ==
  [j \in DOMAIN ps |-> IF ps[j].map = i THEN popupRemove(ps[j]) ELSE ps[j]]

----------------------------------------------------------------------------
\* The load handler, lines 47-101

RECURSIVE addSources(_, _)
addSources(m, ids) ==
  IF ids = << >> THEN m ELSE addSources(addSource(m, Head(ids)), Tail(ids))

\* mutant: the addLayer calls issued last-declared first
RECURSIVE addLayers_Reversed(_, _)
addLayers_Reversed(m, ds) ==
  IF ds = << >> THEN m
  ELSE addLayers_Reversed(addLayer(m, ds[Len(ds)]), SubSeq(ds, 1, Len(ds) - 1))

RECURSIVE addLayers(_, _)
addLayers(m, ds) ==
  IF ds = << >> THEN m ELSE addLayers(addLayer(m, Head(ds)), Tail(ds))

RECURSIVE setAll(_, _, _)
setAll(m, ids, on) ==
  IF ids = << >> THEN m
  ELSE setAll(setLayoutProperty(m, Head(ids), on), Tail(ids), on)

applyIds(k) ==
  IF k = "departments" THEN <<"departments-fill", "departments-outline">>
  ELSE IF k = "communes" THEN <<"communes-outline">>
  ELSE <<"sections-fill", "sections-outline">>

\* mutant: the stored boolean is ignored
apply_AlwaysVisible(m, k, on) == setAll(m, applyIds(k), TRUE)

apply(m, k, on) == setAll(m, applyIds(k), on)

\* (Object.keys(visible)).forEach(k => apply(k, visible[k])), with the
\* `visible` of the handler's closure
RECURSIVE applyEach(_, _, _)
applyEach(m, ks, v) ==
  IF ks = << >> THEN m
  ELSE applyEach(apply(m, Head(ks), v[Head(ks)]), Tail(ks), v)

\* mutant: the handler ends before it attaches the listeners
LoadTail_NoListeners(m) ==
  [applyEach(addLayers(addSources(m, SourceOrder), LayerOrder), VisibleKeys, m.cvis)
     EXCEPT !.hpc = "done"]

\* mutant: the listeners are attached and the layers never added
LoadTail_NoLayers(m) ==
  [mapOn(mapOn(addSources(m, SourceOrder), "mousemove"), "mouseout") EXCEPT !.hpc = "done"]

\* the handler after its last await: everything up to the closing brace
LoadTail(m) ==
  LET m1 == addSources(m, SourceOrder)
      m2 == addLayers(m1, LayerOrder)
      m3 == applyEach(m2, VisibleKeys, m.cvis)
      m4 == mapOn(mapOn(m3, "mousemove"), "mouseout")
  IN  [m4 EXCEPT !.hpc = "done"]

\* the fetch awaited after f
NextFetch(f) ==
  IF f = "departments" THEN "communes" ELSE IF f = "communes" THEN "sections" ELSE "tail"

----------------------------------------------------------------------------
\* toggle, lines 106-119

toggleIds(key) ==
  IF key = "departments" THEN <<"departments-fill", "departments-outline">>
  ELSE IF key = "communes" THEN <<"communes-outline">>
  ELSE <<"sections-fill", "sections-outline">>

\* mutant: the spread of prev is forgotten
toggleNext_NoSpread(prev, key) == [k \in {key} |-> ~prev[key]]

\* mutant: the entry is switched on instead of flipped
toggleNext_SetTrue(prev, key) ==
  [k \in DOMAIN prev \cup {key} |-> IF k = key THEN TRUE ELSE prev[k]]

\* const next = { ...prev, [key]: !prev[key] }
toggleNext(prev, key) ==
  [k \in DOMAIN prev \cup {key} |-> IF k = key THEN ~prev[key] ELSE prev[k]]

\* mutant: the getLayer guard is dropped
RECURSIVE togglePush_NoGuard(_, _, _)
togglePush_NoGuard(m, ids, on) ==
  IF ids = << >> THEN m
  ELSE togglePush_NoGuard(setLayoutProperty(m, Head(ids), on), Tail(ids), on)

\* ids.forEach(id => map?.getLayer(id) && map.setLayoutProperty(id, ...))
RECURSIVE togglePush(_, _, _)
togglePush(m, ids, on) ==
  IF ids = << >> THEN m
  ELSE togglePush(IF getLayer(m, Head(ids)) THEN setLayoutProperty(m, Head(ids), on) ELSE m,
                  Tail(ids), on)

----------------------------------------------------------------------------
\* The effect, lines 31-104

\* the dependency array of the effect
EffectDeps(b, v) == <<b, v>>

\* mutant: the effect returns no cleanup
Cleanup_Missing(ss, i) == ss

\* return () => map.remove(), run on the Map of the previous effect run
Cleanup(ss, i) == [ss EXCEPT ![i] = remove(@)]

\* The commit that follows a state change.  ss is the Maps as the handler
\* left them.  A setState with an equal value re-renders nothing; `visible`
\* is a fresh object after every toggle, so it never compares equal.
Commit(ss, b, v, freshVisible) ==
  IF EffectDeps(b, v) = EffectDeps(base, visible) /\ ~freshVisible
  THEN /\ surfaces' = ss
       /\ UNCHANGED <<mapRef, popups>>
  ELSE /\ surfaces' = Append(Cleanup(ss, mapRef), NewMap(b, v))
       /\ mapRef' = Len(ss) + 1
       /\ popups' = Append(DropPopups(popups, mapRef), NoPopup)

Init ==
  /\ base = "terrain"
  /\ visible = InitialVisible
  /\ surfaces = << NewMap("terrain", InitialVisible) >>
  /\ mapRef = 1
  /\ popupRef = 0
  /\ popups = << NoPopup >>
  /\ hist = << >>

Last2(h) == IF Len(h) > 2 THEN SubSeq(h, Len(h) - 1, Len(h)) ELSE h

toggle(key) ==
  /\ Len(surfaces) < MaxSurfaces
  /\ LET next == toggleNext(visible, key)
         ss   == [surfaces EXCEPT ![mapRef] = togglePush(@, toggleIds(key), next[key])]
     IN  /\ visible' = next
         /\ Commit(ss, base, next, TRUE)
  /\ hist' = Last2(Append(hist, [key |-> key, before |-> visible]))
  /\ UNCHANGED <<base, popupRef>>

setBase(k) ==
  /\ k = base \/ Len(surfaces) < MaxSurfaces
  /\ base' = k
  /\ Commit(surfaces, k, visible, FALSE)
  /\ UNCHANGED <<visible, popupRef, hist>>

\* the engine fires "load": the handler starts and awaits its first fetch
EngineReady(i) ==
  /\ surfaces[i].status = "Creating"
  /\ surfaces' = [surfaces EXCEPT ![i].status = "Ready", ![i].hpc = FetchOrder[1]]
  /\ UNCHANGED <<base, visible, mapRef, popupRef, popups, hist>>

\* the awaited fetch(...).then(r => r.json()) resolves
FetchResolve(i) ==
  /\ surfaces[i].hpc \in Range(FetchOrder)
  /\ IF NextFetch(surfaces[i].hpc) # "tail"
     THEN /\ surfaces' = [surfaces EXCEPT ![i].hpc = NextFetch(@)]
          /\ UNCHANGED <<popupRef, popups>>
     ELSE IF surfaces[i].status # "Destroyed"
     THEN /\ surfaces' = [surfaces EXCEPT ![i] = LoadTail(@)]
          /\ popupRef' = i
          /\ popups' = [popups EXCEPT ![i].made = TRUE]
     ELSE \* the Map was removed meanwhile: the calls are made all the same, and
          \* the engine either rejects the first of them or accepts them all
          \/ /\ surfaces' = [surfaces EXCEPT ![i].hpc = "threw", ![i].stale = TRUE]
             /\ UNCHANGED <<popupRef, popups>>
          \/ /\ surfaces' = [surfaces EXCEPT ![i] = [LoadTail(@) EXCEPT !.stale = TRUE]]
             /\ popupRef' = i
             /\ popups' = [popups EXCEPT ![i].made = TRUE]
  /\ UNCHANGED <<base, visible, mapRef, hist>>

\* the awaited promise rejects (network error, bad JSON): the async handler
\* ends there with an unhandled rejection
FetchFail(i) ==
  /\ surfaces[i].hpc \in Range(FetchOrder)
  /\ surfaces' = [surfaces EXCEPT ![i].hpc = "rejected", ![i].failed = surfaces[i].hpc]
  /\ UNCHANGED <<base, visible, mapRef, popupRef, popups, hist>>

\* the "mousemove" listener, lines 86-99
mousemove(i, pt) ==
  /\ surfaces[i].status = "Ready"
  /\ "mousemove" \in surfaces[i].listeners
  /\ LET features == queryRenderedFeatures(surfaces[i], pt, hoverTargets)
     IN  /\ surfaces' = [surfaces EXCEPT ![i].cursor = IF features # << >> THEN "pointer" ELSE ""]
         /\ IF features = << >>
            THEN popups' = [popups EXCEPT ![popupRef] = popupRemove(@)]
            ELSE LET f    == pickFeature(features)
                     name == IF pt.named THEN f.source ELSE "Unnamed"
                 IN  popups' = [popups EXCEPT ![popupRef] = popupAddTo(@, name, i)]
  /\ UNCHANGED <<base, visible, mapRef, popupRef, hist>>

\* the "mouseout" listener, line 100
mouseout(i) ==
  /\ surfaces[i].status = "Ready"
  /\ "mouseout" \in surfaces[i].listeners
  /\ popups' = [popups EXCEPT ![popupRef] = popupRemove(@)]
  /\ UNCHANGED <<base, visible, mapRef, popupRef, surfaces, hist>>

Next ==
  \/ \E key \in LayerKey : toggle(key)
  \/ \E k \in StyleKey : setBase(k)
  \/ \E i \in DOMAIN surfaces : EngineReady(i)
  \/ \E i \in DOMAIN surfaces : FetchResolve(i)
  \/ \E i \in DOMAIN surfaces : FetchFail(i)
  \/ \E i \in DOMAIN surfaces, pt \in Points : mousemove(i, pt)
  \/ \E i \in DOMAIN surfaces : mouseout(i)

Spec == Init /\ [][Next]_vars

\* The engine fires "load" for the Map it was asked to create, and the fetch
\* the live Map's handler awaits gets its answer.
LiveNext ==
  \/ \E key \in LayerKey : toggle(key) /\ Len(surfaces') <= MaxLiveSurfaces
  \/ \E k \in StyleKey : setBase(k) /\ Len(surfaces') <= MaxLiveSurfaces
  \/ \E i \in DOMAIN surfaces : EngineReady(i)
  \/ \E i \in DOMAIN surfaces : FetchResolve(i)
  \/ \E i \in DOMAIN surfaces : FetchFail(i)
  \/ \E i \in DOMAIN surfaces, pt \in Points : mousemove(i, pt)
  \/ \E i \in DOMAIN surfaces : mouseout(i)

LiveSpec ==
  /\ Init
  /\ [][LiveNext]_vars
  /\ WF_vars(EngineReady(mapRef))
  /\ WF_vars(FetchResolve(mapRef) \/ FetchFail(mapRef))

----------------------------------------------------------------------------
\* Vocabulary of the properties

Alive(ss) == {i \in DOMAIN ss : ss[i].status # "Destroyed"}

\* the LogicalLayer that owns a surface-layer id
Owner(id) ==
  IF id \in {"departments-fill", "departments-outline"} THEN "departments"
  ELSE IF id = "communes-outline" THEN "communes"
  ELSE "sections"

\* a step of toggle: nothing else writes `visible`
ToggleStep == visible' # visible

\* the composition of Map i ran to its end while the Map was live
Composed(i) == surfaces[i].hpc = "done" /\ ~surfaces[i].stale

Flip(v, key) == [k \in LayerKey |-> IF k = key THEN ~v[k] ELSE v[k]]

----------------------------------------------------------------------------
\* C1: a toggle leaves the Surface in place: the Map that is live before the
\* toggle is the live Map after it, still with its sources, layers and
\* listeners.
C1_ToggleLeavesSurface ==
  [][ToggleStep =>
        /\ mapRef' = mapRef
        /\ Len(surfaces') = Len(surfaces)
        /\ surfaces'[mapRef].status = surfaces[mapRef].status
        /\ surfaces'[mapRef].sources = surfaces[mapRef].sources
        /\ surfaces'[mapRef].layers = surfaces[mapRef].layers
        /\ surfaces'[mapRef].listeners = surfaces[mapRef].listeners]_vars

\* C2: at most one Surface is alive in every state, and in every step that
\* creates a Surface the one alive before it is destroyed, its listeners
\* unregistered, so the new Surface is the only one alive.
C2_OneSurfaceAlive ==
  /\ Cardinality(Alive(surfaces)) <= 1
  /\ [][/\ Cardinality(Alive(surfaces')) <= 1
        /\ Len(surfaces') > Len(surfaces) =>
             /\ \A i \in Alive(surfaces) :
                  /\ surfaces'[i].status = "Destroyed"
                  /\ surfaces'[i].listeners = {}
             /\ Alive(surfaces') = {Len(surfaces')}
             /\ surfaces'[Len(surfaces')].status = "Creating"]_vars

\* a Surface that had been composed, listeners attached, was replaced after
\* a basemap switch
C2_Witness ==
  /\ Len(surfaces) >= 2
  /\ Composed(1)
  /\ surfaces[1].status = "Destroyed"
  /\ base = "dark"
  /\ surfaces[2].status = "Ready"

\* C3: the load handler of a destroyed Surface does nothing when its last
\* fetch resolves: no registration call is made on it and no error is raised.
C3_StaleCallbackIsNoOp ==
  \A i \in DOMAIN surfaces : ~surfaces[i].stale

\* C4: when the fetch of one LogicalLayer fails, the composition still
\* registers the sources and layers of the other two and applies `visible`
\* to them.
C4_FailedFetchSkipsOneLayer ==
  \A i \in DOMAIN surfaces :
    (surfaces[i].status = "Ready" /\ surfaces[i].hpc = "rejected") =>
      LET m == surfaces[i] IN
      /\ m.sources = Range(SourceOrder) \ {m.failed}
      /\ RegisteredIds(m) = {d.id : d \in {e \in Range(LayerOrder) : e.source # m.failed}}
      /\ \A id \in RegisteredIds(m) : LayerVisible(m, id) = m.cvis[Owner(id)]

\* C5: the layers of a Surface are registered in the declared order:
\* departments-fill, departments-outline, communes-outline, sections-fill,
\* sections-outline; a composed Surface holds exactly that stack.
C5_RegistrationOrder ==
  \A i \in DOMAIN surfaces :
    /\ IsPrefix([j \in DOMAIN surfaces[i].layers |-> surfaces[i].layers[j].id],
                <<"departments-fill", "departments-outline", "communes-outline",
                  "sections-fill", "sections-outline">>)
    /\ (surfaces[i].status = "Ready" /\ Composed(i)) => Len(surfaces[i].layers) = 5

C5_Witness ==
  \E i \in DOMAIN surfaces : surfaces[i].status = "Ready" /\ Composed(i)

\* C6: every registered layer has its source registered on the same Surface,
\* and a Surface that holds a source or a layer is in Ready.
C6_LayerAfterSourceOnReady ==
  \A i \in DOMAIN surfaces :
    /\ \A j \in DOMAIN surfaces[i].layers : surfaces[i].layers[j].source \in surfaces[i].sources
    /\ (surfaces[i].sources # {} \/ surfaces[i].layers # << >>) => surfaces[i].status = "Ready"

\* C7: `visible` has exactly the three entries departments, communes and
\* sections, each a boolean.
C7_VisibilityTotal ==
  /\ DOMAIN visible = LayerKey
  /\ \A k \in DOMAIN visible : visible[k] \in BOOLEAN

\* two different layers toggled, then the third Surface composed
C7_Witness ==
  /\ Len(hist) = 2
  /\ hist[1].key # hist[2].key
  /\ visible = Flip(Flip(InitialVisible, hist[1].key), hist[2].key)
  /\ Composed(mapRef)

\* C8: one toggle(k) flips the entry of k and no other; toggle(k) twice in a
\* row gives back the VisibilityState it started from.
C8_ToggleTwice ==
  /\ Len(hist) >= 1 => visible = Flip(hist[Len(hist)].before, hist[Len(hist)].key)
  /\ (Len(hist) = 2 /\ hist[1].key = hist[2].key) => visible = hist[1].before

C8_Witness == Len(hist) = 2 /\ hist[1].key = hist[2].key

\* C9: on a live Surface whose composition has finished, each registered
\* layer is visible exactly when the entry of its LogicalLayer is true; with
\* the initial entries the visible layers are the two of departments and the
\* two of sections, communes-outline being registered and hidden.
C9_VisibilityAgreement ==
  LET m == surfaces[mapRef] IN
  (m.status = "Ready" /\ Composed(mapRef)) =>
    /\ RegisteredIds(m) = {d.id : d \in Range(LayerOrder)}
    /\ \A id \in RegisteredIds(m) : LayerVisible(m, id) = visible[Owner(id)]
    /\ visible = InitialVisible =>
         /\ VisibleIds(m) = {"departments-fill", "departments-outline",
                             "sections-fill", "sections-outline"}
         /\ "communes-outline" \in RegisteredIds(m) \ VisibleIds(m)

\* composed again after communes was toggled on
C9_Witness ==
  /\ hist # << >>
  /\ visible.communes
  /\ surfaces[mapRef].status = "Ready"
  /\ Composed(mapRef)
  /\ LayerVisible(surfaces[mapRef], "communes-outline")

\* C10: toggle(k) on a composed Surface changes no entry but that of k, and
\* every layer not owned by k stays registered on the live Surface with the
\* visibility it had.
C10_ToggleLeavesOthers ==
  [][(ToggleStep /\ surfaces[mapRef].status = "Ready" /\ Composed(mapRef)) =>
        \E key \in LayerKey :
          /\ \A k \in LayerKey \ {key} : visible'[k] = visible[k]
          /\ \A id \in RegisteredIds(surfaces[mapRef]) :
               Owner(id) # key =>
                 /\ id \in RegisteredIds(surfaces'[mapRef'])
                 /\ LayerVisible(surfaces'[mapRef'], id) = LayerVisible(surfaces[mapRef], id)]_vars

----------------------------------------------------------------------------
\* Hover

\* layer id is rendered under the pointer: registered, visible, and its data
\* has a feature there
RenderedAt(m, pt, id) == LayerVisible(m, id) /\ pt[Owner(id)]

\* C11: on a Map that listens for mousemove, when sections-fill and
\* departments-fill are both rendered under the pointer, the feature taken
\* for the popup is the one of sections-fill; a departments-fill feature is
\* taken only where no sections-fill feature is rendered.
C11_SectionsWinHover ==
  \A i \in Alive(surfaces), pt \in Points :
    "mousemove" \in surfaces[i].listeners =>
      LET m  == surfaces[i]
          fs == queryRenderedFeatures(m, pt, hoverTargets)
      IN  /\ (RenderedAt(m, pt, "sections-fill") /\ RenderedAt(m, pt, "departments-fill")) =>
               fs # << >> /\ pickFeature(fs).id = "sections-fill"
          /\ (fs # << >> /\ pickFeature(fs).id = "departments-fill") =>
               ~RenderedAt(m, pt, "sections-fill")

\* the popup shows a sections name on a live Map where both fills are visible
C11_Witness ==
  /\ popupRef # 0
  /\ popups[popupRef].map = mapRef
  /\ popups[popupRef].html = "sections"
  /\ LayerVisible(surfaces[mapRef], "sections-fill")
  /\ LayerVisible(surfaces[mapRef], "departments-fill")

\* C12: after a mousemove whose query finds no feature, no popup is shown on
\* the Surface and its cursor is reset.
C12_EmptyHoverClears ==
  [][\A i \in DOMAIN surfaces, pt \in Points :
       (mousemove(i, pt) /\ queryRenderedFeatures(surfaces[i], pt, hoverTargets) = << >>) =>
         /\ \A j \in DOMAIN popups' : popups'[j].map # i
         /\ surfaces'[i].cursor = ""]_vars

\* C13: at most one popup is shown; a shown popup is the one popupRef holds,
\* it is on the live Surface, and it was made by the composition of a Surface
\* that was live.
C13_SinglePopup ==
  LET shown == {j \in DOMAIN popups : popups[j].map # 0} IN
  /\ Cardinality(shown) <= 1
  /\ \A j \in shown :
       /\ j = popupRef
       /\ popups[j].map = mapRef
       /\ ~surfaces[j].stale

----------------------------------------------------------------------------
\* Basemap switches

\* a step of setBase that changes the key
SwitchStep == base' # base

\* C14: a change of StyleKey destroys the Surface that was live and creates
\* one with the style of the new key; in every state the only live Surface
\* has the style of the selected StyleKey.
C14_StyleFollowsBase ==
  /\ [](Alive(surfaces) = {mapRef} /\ surfaces[mapRef].style = STYLES[base])
  /\ [][SwitchStep =>
          /\ surfaces'[mapRef].status = "Destroyed"
          /\ mapRef' = Len(surfaces) + 1
          /\ surfaces'[mapRef'].status = "Creating"
          /\ surfaces'[mapRef'].style = STYLES[base']]_vars

C14_Witness ==
  /\ base = "dark"
  /\ Len(surfaces) = 2
  /\ surfaces[1].status = "Destroyed"
  /\ surfaces[1].style = STYLES["terrain"]
  /\ surfaces[2].style = STYLES["dark"]

\* C15: a toggle made while the layers of its LogicalLayer are not on the
\* live Surface (Creating, or Ready with the load handler not at its end)
\* flips the entry and makes no setLayoutProperty call for a layer the Map
\* does not hold: no Map ever reports such a call.
C15_ToggleSkipsMissingLayers ==
  /\ [](\A i \in DOMAIN surfaces : ~surfaces[i].err)
  /\ [][(ToggleStep /\ surfaces[mapRef].layers = << >>) =>
          /\ \E key \in LayerKey : visible' = Flip(visible, key)
          /\ surfaces'[mapRef] = remove(surfaces[mapRef])]_vars

\* toggled while the first Map was Ready and awaiting its second fetch
C15_Witness ==
  /\ Len(surfaces) = 2
  /\ hist # << >>
  /\ surfaces[1].status = "Destroyed"
  /\ surfaces[1].hpc = "communes"

\* C17: a basemap switch leaves `visible` as it is and hands it to the new
\* Surface; a live Surface that has been composed shows each layer as the
\* `visible` of its creation says.
C17_SwitchKeepsVisibility ==
  /\ [](\A i \in DOMAIN surfaces :
          (surfaces[i].status = "Ready" /\ Composed(i)) =>
            \A id \in RegisteredIds(surfaces[i]) :
              LayerVisible(surfaces[i], id) = surfaces[i].cvis[Owner(id)])
  /\ [][SwitchStep =>
          /\ visible' = visible
          /\ surfaces'[mapRef'].cvis = visible]_vars

\* communes switched on, then the basemap switched, then composed
C17_Witness ==
  /\ Len(surfaces) = 3
  /\ surfaces[2].style # surfaces[3].style
  /\ surfaces[2].cvis = surfaces[3].cvis
  /\ visible.communes
  /\ surfaces[3].status = "Ready"
  /\ Composed(3)
  /\ LayerVisible(surfaces[3], "communes-outline")

\* C18: a Surface with a mousemove or mouseout listener holds sections-fill
\* and departments-fill, and popupRef holds a Popup.
C18_ListenersAfterComposition ==
  \A i \in DOMAIN surfaces :
    surfaces[i].listeners # {} =>
      /\ Range(hoverTargets) \subseteq RegisteredIds(surfaces[i])
      /\ popupRef \in DOMAIN popups
      /\ popups[popupRef].made

C18_Witness ==
  /\ surfaces[mapRef].listeners = {"mousemove", "mouseout"}
  /\ surfaces[mapRef].status = "Ready"
  /\ popups[popupRef].map = mapRef

\* the live Surface holds everything the load handler builds
FullyComposed ==
  LET m == surfaces[mapRef] IN
  /\ m.status = "Ready"
  /\ m.style = STYLES[base]
  /\ m.sources = Range(SourceOrder)
  /\ [j \in DOMAIN m.layers |-> m.layers[j].id] =
       <<"departments-fill", "departments-outline", "communes-outline",
         "sections-fill", "sections-outline">>
  /\ \A id \in RegisteredIds(m) : LayerVisible(m, id) = visible[Owner(id)]
  /\ m.listeners = {"mousemove", "mouseout"}

\* Map n was created by a basemap switch
MadeBySwitch(n) ==
  /\ n >= 2
  /\ Len(surfaces) = n
  /\ surfaces[n].style # surfaces[n - 1].style

\* C16: after a basemap switch, unless a later setBase or toggle replaces the
\* Surface or one of its fetches fails, the live Surface comes to hold the
\* three sources, the five layers with `visible` applied, and both listeners.
C16_SwitchRebuilds ==
  \A n \in 2..MaxLiveSurfaces :
    MadeBySwitch(n) ~>
      (Len(surfaces) > n \/ FullyComposed \/ surfaces[mapRef].hpc = "rejected")

C16_Witness ==
  /\ MadeBySwitch(Len(surfaces))
  /\ base = "dark"
  /\ FullyComposed

====
